---- MODULE Spec2Model ----
(***************************************************************************)
(* A model of the sqlite-mcp tool layer (src/src/entry.py): the query      *)
(* executor execute_query and the handlers get_item, update_item,          *)
(* delete_item, create_item, get_all_items and get_all_tables, running     *)
(* against one SQLite database file.                                       *)
(*                                                                         *)
(* A statement is the sequence of the tokens of its text; the engine       *)
(* parses it, binds the parameters positionally and runs it on the         *)
(* connection's view of the database.                                      *)
(***************************************************************************)
EXTENDS Integers, Sequences, FiniteSets, TLC

\* ------------------------------------------------------------------ bounds

\* Tool invocations in one behaviour.
MaxCalls == 2

\* ------------------------------------------------------------------ values

\* A scalar: a Python int, str or None bound as a parameter, and an SQLite
\* INTEGER, TEXT or NULL stored in a column.
IntV(n) == [t |-> "int", i |-> n, s |-> ""]
TextV(x) == [t |-> "text", i |-> 0, s |-> x]
Null == [t |-> "null", i |-> 0, s |-> ""]

\* The decimal texts the engine converts to and from integers.
Digits == <<"1", "2", "3", "4", "5", "6", "7", "8", "9">>

IsNumericText(x) == \E n \in 1..Len(Digits) : Digits[n] = x

TextToInt(x) == CHOOSE n \in 1..Len(Digits) : Digits[n] = x

IntToText(n) == Digits[n]

\* Column affinity, applied to a value stored in a column and to the operand
\* a column is compared with: INTEGER turns a numeric text into the integer,
\* TEXT turns an integer into its text.
ApplyAffinity(type, v) ==
    CASE type = "INTEGER" /\ v.t = "text" /\ IsNumericText(v.s) -> IntV(TextToInt(v.s))
      [] type = "TEXT" /\ v.t = "int" -> TextV(IntToText(v.i))
      [] OTHER -> v

\* column = operand as the engine decides it: NULL equals nothing.
SqlEq(type, stored, operand) ==
    LET o == ApplyAffinity(type, operand)
    IN  stored.t # "null" /\ o.t # "null" /\ stored = o

\* ---------------------------------------------------------------- database

\* The database file: the tables it holds, each with its declared columns,
\* its rows in rowid order and its place seq in the order of creation. A row maps each column name to a value; the
\* INTEGER PRIMARY KEY column is the rowid.
Column(name, type, notnull, pk) ==
    [name |-> name, type |-> type, notnull |-> notnull, pk |-> pk]

UsersCols ==
    << Column("id", "INTEGER", FALSE, TRUE),
       Column("name", "TEXT", TRUE, FALSE),
       Column("age", "INTEGER", FALSE, FALSE) >>

ProductsCols ==
    << Column("id", "INTEGER", FALSE, TRUE),
       Column("name", "TEXT", TRUE, FALSE) >>

UserRow(id, name, age) == ("id" :> id) @@ ("name" :> name) @@ ("age" :> age)

ProductRow(id, name) == ("id" :> id) @@ ("name" :> name)

\* The seeded database the handlers are exercised on.
FixtureDb ==
    ("users" :> [cols |-> UsersCols, seq |-> 1,
                 rows |-> << UserRow(IntV(1), TextV("x"), IntV(1)),
                             UserRow(IntV(2), TextV("1"), IntV(2)) >>])
    @@ ("products" :> [cols |-> ProductsCols, seq |-> 2,
                       rows |-> << ProductRow(IntV(1), TextV("a")) >>])

ColNames(td) == {td.cols[j].name : j \in DOMAIN td.cols}

ColDef(td, c) == td.cols[CHOOSE j \in DOMAIN td.cols : td.cols[j].name = c]

PkName(td) == td.cols[CHOOSE j \in DOMAIN td.cols : td.cols[j].pk].name

RowSet(td) == {td.rows[j] : j \in DOMAIN td.rows}

RowIds(td) == {td.rows[j][PkName(td)].i : j \in DOMAIN td.rows}

\* The rows of S in rowid order.
SortRows(S, pk) ==
    [k \in 1..Cardinality(S) |->
        CHOOSE r \in S : Cardinality({r2 \in S : r2[pk].i < r[pk].i}) = k - 1]

\* The rowid the engine gives a row inserted without one.
NextRowId(td) ==
    IF td.rows = <<>> THEN 1
    ELSE (CHOOSE m \in RowIds(td) : \A n \in RowIds(td) : n <= m) + 1

\* --------------------------------------------------------------- statements

\* A statement's text is the sequence of its tokens; white space between
\* tokens is a token of its own where the text begins or ends with it.
WhiteSpace == {" ", "\n"}

\* A comment is one token; the engine skips it, str.strip() does not.
Comments == {"/* c */"}

LowerOf ==
    ("SELECT" :> "select") @@ ("Select" :> "select") @@ ("FROM" :> "from")
    @@ ("WHERE" :> "where") @@ ("INSERT" :> "insert") @@ ("INTO" :> "into")
    @@ ("VALUES" :> "values") @@ ("UPDATE" :> "update") @@ ("SET" :> "set")
    @@ ("DELETE" :> "delete") @@ ("ORDER" :> "order") @@ ("BY" :> "by")
    @@ ("CREATE" :> "create") @@ ("DROP" :> "drop") @@ ("TABLE" :> "table")
    @@ ("WITH" :> "with") @@ ("AS" :> "as") @@ ("OR" :> "or") @@ ("FAIL" :> "fail")

\* str.lower() on one token.
Lower(tok) == IF tok \in DOMAIN LowerOf THEN LowerOf[tok] ELSE tok

Keywords ==
    {"select", "from", "where", "insert", "into", "values", "update", "set",
     "delete", "order", "by", "create", "drop", "table", "with", "as", "or",
     "fail"}

Punct == {"(", ")", ",", "=", ";", "*", "?"}

\* The literals of the statements, with the values they denote.
Literals ==
    ("1" :> IntV(1)) @@ ("2" :> IntV(2)) @@ ("'a'" :> TextV("a"))
    @@ ("'1'" :> TextV("1")) @@ ("NULL" :> Null) @@ ("'table'" :> TextV("table"))

IsIdent(tok) ==
    /\ tok \notin Punct
    /\ tok \notin WhiteSpace
    /\ tok \notin Comments
    /\ tok \notin DOMAIN Literals
    /\ Lower(tok) \notin Keywords

IsOperand(tok) == tok = "?" \/ tok \in DOMAIN Literals

\* str.strip(): the text without its leading and trailing white space.
RECURSIVE LStrip(_)
LStrip(q) ==
    IF q # <<>> /\ Head(q) \in WhiteSpace THEN LStrip(Tail(q)) ELSE q

RECURSIVE RStrip(_)
RStrip(q) ==
    IF q # <<>> /\ q[Len(q)] \in WhiteSpace
    THEN RStrip(SubSeq(q, 1, Len(q) - 1))
    ELSE q

Strip(q) == RStrip(LStrip(q))

\* A faulty test: query.lower().startswith("select"), without strip().
StartsWithSelectUnstripped(q) == q # <<>> /\ Lower(q[1]) = "select"

\* query.strip().lower().startswith("select")
StartsWithSelect(q) ==
    LET s == Strip(q) IN s # <<>> /\ Lower(s[1]) = "select"

\* The tokens the engine parses: no white space, no comment, no closing
\* semicolon.
SqlTokens(q) ==
    LET s == SelectSeq(q, LAMBDA tok : tok \notin WhiteSpace \cup Comments)
    IN  IF s # <<>> /\ s[Len(s)] = ";" THEN SubSeq(s, 1, Len(s) - 1) ELSE s

\* A parsed statement. ops are the operands in the order of the text: the
\* inserted or assigned values, then the operand of WHERE (wop, "" without
\* a WHERE clause).
Ast(kind, table, cols, ops, wcol, wop) ==
    [kind |-> kind, table |-> table, cols |-> cols, ops |-> ops,
     wcol |-> wcol, wop |-> wop]

SyntaxError == Ast("error", "", <<>>, <<>>, "", "")

\* s[a..b] is item, item, ... with at least one item, the items column
\* names (operands when ops is TRUE).
IsList(s, a, b, ops) ==
    /\ b >= a
    /\ (b - a) % 2 = 0
    /\ \A j \in a..b :
          IF (j - a) % 2 = 0
          THEN (IF ops THEN IsOperand(s[j]) ELSE IsIdent(s[j]))
          ELSE s[j] = ","

ListItems(s, a, b) == [k \in 1..((b - a) \div 2 + 1) |-> s[a + 2 * (k - 1)]]

\* s[a..b] is col = operand, col = operand, ... with at least one.
IsAssignList(s, a, b) ==
    /\ b >= a
    /\ (b - a + 1) % 4 = 3
    /\ \A j \in a..b :
          CASE (j - a) % 4 = 0 -> IsIdent(s[j])
            [] (j - a) % 4 = 1 -> s[j] = "="
            [] (j - a) % 4 = 2 -> IsOperand(s[j])
            [] OTHER -> s[j] = ","

AssignCols(s, a, b) == [k \in 1..((b - a + 1) \div 4 + 1) |-> s[a + 4 * (k - 1)]]

AssignOps(s, a, b) == [k \in 1..((b - a + 1) \div 4 + 1) |-> s[a + 4 * (k - 1) + 2]]

\* s[a..a+3] is WHERE col = operand, ending the statement.
IsWhere(s, a) ==
    /\ Len(s) = a + 3
    /\ Lower(s[a]) = "where"
    /\ IsIdent(s[a + 1])
    /\ s[a + 2] = "="
    /\ IsOperand(s[a + 3])

\* The index of the first token that is tok in lower case, 0 if none is.
FirstIndex(s, tok) ==
    IF \E j \in DOMAIN s : Lower(s[j]) = tok
    THEN CHOOSE j \in DOMAIN s :
             Lower(s[j]) = tok /\ \A k \in 1..(j - 1) : Lower(s[k]) # tok
    ELSE 0

ParseSelect(s) ==
    LET n == Len(s) IN
    CASE n = 2 /\ s[2] = "last_insert_rowid()" ->
            Ast("lastid", "", <<>>, <<>>, "", "")
      [] n = 11 /\ s[2] = "name" /\ Lower(s[3]) = "from" /\ s[4] = "sqlite_master"
            /\ Lower(s[5]) = "where" /\ s[6] = "type" /\ s[7] = "=" /\ s[8] = "'table'"
            /\ Lower(s[9]) = "order" /\ Lower(s[10]) = "by" /\ s[11] = "name" ->
            Ast("tables", "sqlite_master", <<"name">>, <<>>, "", "")
      [] n = 8 /\ s[2] = "name" /\ Lower(s[3]) = "from" /\ s[4] = "sqlite_master"
            /\ Lower(s[5]) = "where" /\ s[6] = "type" /\ s[7] = "=" /\ s[8] = "'table'" ->
            Ast("tables", "sqlite_master", <<>>, <<>>, "", "")
      [] n = 4 /\ s[2] = "*" /\ Lower(s[3]) = "from" /\ IsIdent(s[4]) ->
            Ast("select", s[4], <<>>, <<>>, "", "")
      [] n = 8 /\ s[2] = "*" /\ Lower(s[3]) = "from" /\ IsIdent(s[4]) /\ IsWhere(s, 5) ->
            Ast("select", s[4], <<>>, <<>>, s[6], s[8])
      [] OTHER -> SyntaxError

ParseInsert(s) ==
    LET n == Len(s)
        p == FirstIndex(s, ")")
    IN  IF /\ n >= 10
           /\ Lower(s[2]) = "into" /\ IsIdent(s[3]) /\ s[4] = "("
           /\ p > 4 /\ p + 2 < n
           /\ IsList(s, 5, p - 1, FALSE)
           /\ Lower(s[p + 1]) = "values" /\ s[p + 2] = "(" /\ s[n] = ")"
           /\ IsList(s, p + 3, n - 1, TRUE)
        THEN Ast("insert", s[3], ListItems(s, 5, p - 1), ListItems(s, p + 3, n - 1), "", "")
        ELSE SyntaxError

\* INSERT OR FAIL INTO t VALUES (v, ...), (v, ...): two rows, every column
\* of the table given in its order; ops holds the values of both rows.
ParseInsertOrFail(s) ==
    LET n == Len(s)
        p == FirstIndex(s, ")")
    IN  IF /\ n >= 13
           /\ Lower(s[2]) = "or" /\ Lower(s[3]) = "fail" /\ Lower(s[4]) = "into"
           /\ IsIdent(s[5]) /\ Lower(s[6]) = "values" /\ s[7] = "("
           /\ p > 7 /\ p + 3 < n
           /\ IsList(s, 8, p - 1, TRUE)
           /\ s[p + 1] = "," /\ s[p + 2] = "(" /\ s[n] = ")"
           /\ IsList(s, p + 3, n - 1, TRUE)
           /\ p - 8 = n - p - 3
        THEN Ast("insertrows", s[5], <<>>,
                 ListItems(s, 8, p - 1) \o ListItems(s, p + 3, n - 1), "", "")
        ELSE SyntaxError

\* WITH v AS (SELECT 1) INSERT OR FAIL ...: the same statement behind a
\* common table expression it does not use.
ParseWith(s) ==
    LET n == Len(s)
        ast == ParseInsertOrFail(SubSeq(s, 8, n))
    IN  IF /\ n > 8
           /\ IsIdent(s[2]) /\ Lower(s[3]) = "as" /\ s[4] = "("
           /\ Lower(s[5]) = "select" /\ s[6] = "1" /\ s[7] = ")"
           /\ Lower(s[8]) = "insert"
           /\ ast.kind # "error"
        THEN [ast EXCEPT !.kind = "withinsertrows"]
        ELSE SyntaxError

ParseUpdate(s) ==
    LET n == Len(s)
        w == FirstIndex(s, "where")
    IN  CASE /\ n >= 10
             /\ IsIdent(s[2]) /\ Lower(s[3]) = "set"
             /\ w > 4
             /\ IsAssignList(s, 4, w - 1)
             /\ IsWhere(s, w) ->
                Ast("update", s[2], AssignCols(s, 4, w - 1), AssignOps(s, 4, w - 1),
                    s[w + 1], s[w + 3])
          [] /\ n >= 6
             /\ IsIdent(s[2]) /\ Lower(s[3]) = "set"
             /\ w = 0
             /\ IsAssignList(s, 4, n) ->
                Ast("update", s[2], AssignCols(s, 4, n), AssignOps(s, 4, n), "", "")
          [] OTHER -> SyntaxError

ParseDelete(s) ==
    LET n == Len(s) IN
    CASE n = 3 /\ Lower(s[2]) = "from" /\ IsIdent(s[3]) ->
            Ast("delete", s[3], <<>>, <<>>, "", "")
      [] n = 7 /\ Lower(s[2]) = "from" /\ IsIdent(s[3]) /\ IsWhere(s, 4) ->
            Ast("delete", s[3], <<>>, <<>>, s[5], s[7])
      [] OTHER -> SyntaxError

\* The column definitions of the tables the statements create.
NewTableCols ==
    <<"(", "id", "INTEGER", "PRIMARY", "KEY", ",", "name", "TEXT", "NOT", "NULL", ")">>

\* CREATE TABLE t (id INTEGER PRIMARY KEY, name TEXT NOT NULL)
ParseCreate(s) ==
    IF /\ Len(s) = 3 + Len(NewTableCols)
       /\ Lower(s[2]) = "table" /\ IsIdent(s[3])
       /\ SubSeq(s, 4, Len(s)) = NewTableCols
    THEN Ast("create", s[3], <<>>, <<>>, "", "")
    ELSE SyntaxError

\* DROP TABLE t
ParseDrop(s) ==
    IF Len(s) = 3 /\ Lower(s[2]) = "table" /\ IsIdent(s[3])
    THEN Ast("drop", s[3], <<>>, <<>>, "", "")
    ELSE SyntaxError

\* sqlite3_prepare: the statement of the text, or a syntax error.
Parse(q) ==
    LET s == SqlTokens(q) IN
    CASE s = <<>> -> Ast("empty", "", <<>>, <<>>, "", "")
      [] s # <<>> /\ Lower(s[1]) = "select" -> ParseSelect(s)
      [] s # <<>> /\ Lower(s[1]) = "insert" ->
            IF Len(s) >= 2 /\ Lower(s[2]) = "or"
            THEN ParseInsertOrFail(s) ELSE ParseInsert(s)
      [] s # <<>> /\ Lower(s[1]) = "with" -> ParseWith(s)
      [] s # <<>> /\ Lower(s[1]) = "update" -> ParseUpdate(s)
      [] s # <<>> /\ Lower(s[1]) = "delete" -> ParseDelete(s)
      [] s # <<>> /\ Lower(s[1]) = "create" -> ParseCreate(s)
      [] s # <<>> /\ Lower(s[1]) = "drop" -> ParseDrop(s)
      [] OTHER -> SyntaxError

\* All operands of a statement in binding order.
AllOps(ast) == IF ast.wcol = "" THEN ast.ops ELSE Append(ast.ops, ast.wop)

\* The number of positional placeholders of a statement.
NumPlaceholders(ast) ==
    Cardinality({j \in DOMAIN AllOps(ast) : AllOps(ast)[j] = "?"})

\* The value of the j-th operand: the next parameter for a placeholder.
OperandValue(ast, params, j) ==
    LET ops == AllOps(ast) IN
    IF ops[j] = "?"
    THEN params[Cardinality({k \in 1..j : ops[k] = "?"})]
    ELSE Literals[ops[j]]

\* ------------------------------------------------------------------- engine

\* What cursor.execute leaves behind: err is the message of the fault it
\* raised ("" when it raised none), txn whether the connection now holds an
\* open transaction, work the database as the connection sees it, rows the
\* rows the cursor will return, lastId the connection's last insert rowid.
Outcome(err, txn, work, rows, lastId) ==
    [err |-> err, txn |-> txn, work |-> work, rows |-> rows, lastId |-> lastId]

\* The statements before which the connection opens a transaction: those
\* whose text starts with INSERT, UPDATE or DELETE.
IsDml(ast) == ast.kind \in {"insert", "insertrows", "update", "delete"}

\* The table names in ascending lexical order.
LexOrder == <<"ghost", "products", "users">>

StoredValue(td, c, v) == ApplyAffinity(ColDef(td, c).type, v)

\* The row satisfies WHERE wcol = wv (every row does without a WHERE).
Matches(td, row, wcol, wv) ==
    wcol = "" \/ SqlEq(ColDef(td, wcol).type, row[wcol], wv)

WhereValue(ast, params) ==
    IF ast.wcol = "" THEN Null ELSE OperandValue(ast, params, Len(AllOps(ast)))

Matched(td, ast, params) ==
    {j \in DOMAIN td.rows : Matches(td, td.rows[j], ast.wcol, WhereValue(ast, params))}

\* The fault of preparing the statement against the schema, "" if none.
PrepareError(view, ast) ==
    CASE ast.kind = "error" -> "syntax error"
      [] ast.kind \in {"empty", "lastid", "tables"} -> ""
      [] ast.kind = "create" ->
            IF ast.table \in DOMAIN view THEN "table already exists" ELSE ""
      [] ast.table \notin DOMAIN view -> "no such table"
      [] \E j \in DOMAIN ast.cols : ast.cols[j] \notin ColNames(view[ast.table]) ->
            "no such column"
      [] ast.wcol # "" /\ ast.wcol \notin ColNames(view[ast.table]) -> "no such column"
      [] ast.kind = "insert" /\ Len(ast.cols) # Len(ast.ops) -> "values for columns"
      [] /\ ast.kind \in {"insertrows", "withinsertrows"}
         /\ Len(ast.ops) # 2 * Len(view[ast.table].cols) -> "values for columns"
      [] OTHER -> ""

\* The statements that change the file and take its write lock when they run.
Writes(ast) ==
    ast.kind \in {"insert", "insertrows", "withinsertrows", "update", "delete",
                  "create", "drop"}

\* The statement is prepared and bound, so that the engine runs it.
Bound(view, ast, params) ==
    /\ PrepareError(view, ast) = ""
    /\ Len(params) = NumPlaceholders(ast)

Steps(view, q, params) == Bound(view, Parse(q), params)

\* INSERT: the row with the given columns (the first value of a column
\* named twice), NULL elsewhere, and the next rowid when none is given.
RunInsert(view, ast, params, lastId) ==
    LET td == view[ast.table]
        pk == PkName(td)
        Given(c) ==
            IF \E j \in DOMAIN ast.cols : ast.cols[j] = c
            THEN StoredValue(td, c, OperandValue(ast, params,
                     CHOOSE j \in DOMAIN ast.cols :
                         ast.cols[j] = c /\ \A k \in 1..(j - 1) : ast.cols[k] # c))
            ELSE Null
        row == [c \in ColNames(td) |->
                   IF c = pk /\ Given(pk).t = "null" THEN IntV(NextRowId(td)) ELSE Given(c)]
    IN  CASE row[pk].t # "int" -> Outcome("datatype mismatch", TRUE, view, <<>>, lastId)
          [] \E c \in ColNames(td) : ColDef(td, c).notnull /\ row[c].t = "null" ->
                Outcome("NOT NULL constraint failed", TRUE, view, <<>>, lastId)
          [] row[pk].i \in RowIds(td) ->
                Outcome("UNIQUE constraint failed", TRUE, view, <<>>, lastId)
          [] OTHER ->
                Outcome("", TRUE,
                        [view EXCEPT ![ast.table].rows = SortRows(RowSet(td) \cup {row}, pk)],
                        <<>>, row[pk].i)

\* The second row of INSERT OR FAIL, after the first row left out1.
ThenInsert(out1, row, params, txn) ==
    IF out1.err # ""
    THEN [out1 EXCEPT !.txn = txn]
    ELSE [RunInsert(out1.work, row, params, out1.lastId) EXCEPT !.txn = txn]

\* INSERT OR FAIL of two rows: when the second row fails the first one
\* stays inserted, in the open transaction if the connection opened one and
\* in the file if it did not.
RunInsertRows(view, ast, params, lastId) ==
    LET td == view[ast.table]
        k == Len(td.cols)
        names == [j \in 1..k |-> td.cols[j].name]
        row1 == Ast("insert", ast.table, names, SubSeq(ast.ops, 1, k), "", "")
        row2 == Ast("insert", ast.table, names, SubSeq(ast.ops, k + 1, 2 * k), "", "")
        n1 == NumPlaceholders(row1)
    IN  ThenInsert(RunInsert(view, row1, SubSeq(params, 1, n1), lastId),
                   row2, SubSeq(params, n1 + 1, Len(params)), IsDml(ast))

\* UPDATE: every matched row with the assigned columns replaced (the last
\* value of a column assigned twice).
RunUpdate(view, ast, params, lastId) ==
    LET td == view[ast.table]
        pk == PkName(td)
        hit == Matched(td, ast, params)
        Assigned(c) == \E j \in DOMAIN ast.cols : ast.cols[j] = c
        NewValue(c) ==
            StoredValue(td, c, OperandValue(ast, params,
                CHOOSE j \in DOMAIN ast.cols :
                    ast.cols[j] = c /\ \A k \in (j + 1)..Len(ast.cols) : ast.cols[k] # c))
        NewRow(r) == [c \in ColNames(td) |-> IF Assigned(c) THEN NewValue(c) ELSE r[c]]
    IN  CASE hit # {} /\ Assigned(pk) /\ NewValue(pk).t # "int" ->
                Outcome("datatype mismatch", TRUE, view, <<>>, lastId)
          [] hit # {} /\ \E c \in ColNames(td) :
                Assigned(c) /\ ColDef(td, c).notnull /\ NewValue(c).t = "null" ->
                Outcome("NOT NULL constraint failed", TRUE, view, <<>>, lastId)
          [] hit # {} /\ Assigned(pk)
                /\ \/ Cardinality(hit) > 1
                   \/ \E k \in DOMAIN td.rows : k \notin hit /\ td.rows[k][pk] = NewValue(pk) ->
                Outcome("UNIQUE constraint failed", TRUE, view, <<>>, lastId)
          [] OTHER ->
                Outcome("", TRUE,
                        [view EXCEPT ![ast.table].rows =
                            SortRows({IF j \in hit THEN NewRow(td.rows[j]) ELSE td.rows[j] :
                                         j \in DOMAIN td.rows}, pk)],
                        <<>>, lastId)

RunDelete(view, ast, params, lastId) ==
    LET td == view[ast.table]
    IN  Outcome("", TRUE,
                [view EXCEPT ![ast.table].rows =
                    SelectSeq(td.rows, LAMBDA r :
                        ~Matches(td, r, ast.wcol, WhereValue(ast, params)))],
                <<>>, lastId)

RunSelect(view, ast, params, lastId) ==
    LET td == view[ast.table]
    IN  Outcome("", FALSE, view,
                SelectSeq(td.rows, LAMBDA r :
                    Matches(td, r, ast.wcol, WhereValue(ast, params))),
                lastId)

\* SELECT name FROM sqlite_master WHERE type='table' ORDER BY name
RunTables(view, lastId) ==
    LET names == SelectSeq(LexOrder, LAMBDA n : n \in DOMAIN view)
    IN  Outcome("", FALSE, view,
                [k \in DOMAIN names |-> ("name" :> TextV(names[k]))], lastId)

\* The same without ORDER BY: the names in the order of creation.
RunTablesUnordered(view, lastId) ==
    LET names == SortRows({("name" :> TextV(n)) @@ ("seq" :> IntV(view[n].seq)) :
                              n \in DOMAIN view}, "seq")
    IN  Outcome("", FALSE, view,
                [k \in DOMAIN names |-> ("name" :> names[k]["name"])], lastId)

\* CREATE TABLE: a new empty table, created last. No transaction is opened:
\* the change is in the file when the statement has run.
RunCreate(view, ast, lastId) ==
    LET last == IF DOMAIN view = {} THEN 0
                ELSE CHOOSE m \in {view[u].seq : u \in DOMAIN view} :
                         \A u \in DOMAIN view : view[u].seq <= m
    IN  Outcome("", FALSE,
                view @@ (ast.table :> [cols |-> ProductsCols, seq |-> last + 1,
                                       rows |-> <<>>]),
                <<>>, lastId)

\* DROP TABLE: the table is gone, also without a transaction.
RunDrop(view, ast, lastId) ==
    Outcome("", FALSE, [u \in DOMAIN view \ {ast.table} |-> view[u]], <<>>, lastId)

\* The prepared statement ast, bound and run on a connection whose view of
\* the database is `view` and whose last insert rowid is lastId. The implicit
\* transaction of a DML statement opens once the statement is prepared and
\* stays open when binding or running it fails.
RunAst(view, lastId, ast, params) ==
    CASE PrepareError(view, ast) # "" ->
            Outcome(PrepareError(view, ast), FALSE, view, <<>>, lastId)
      [] Len(params) # NumPlaceholders(ast) ->
            Outcome("Incorrect number of bindings supplied", IsDml(ast), view, <<>>, lastId)
      [] ast.kind = "insert" -> RunInsert(view, ast, params, lastId)
      [] ast.kind \in {"insertrows", "withinsertrows"} ->
            RunInsertRows(view, ast, params, lastId)
      [] ast.kind = "update" -> RunUpdate(view, ast, params, lastId)
      [] ast.kind = "delete" -> RunDelete(view, ast, params, lastId)
      [] ast.kind = "select" -> RunSelect(view, ast, params, lastId)
      [] ast.kind = "tables" /\ ast.cols # <<>> -> RunTables(view, lastId)
      [] ast.kind = "tables" -> RunTablesUnordered(view, lastId)
      [] ast.kind = "create" -> RunCreate(view, ast, lastId)
      [] ast.kind = "drop" -> RunDrop(view, ast, lastId)
      [] ast.kind = "lastid" ->
            Outcome("", FALSE, view, <<("last_insert_rowid()" :> IntV(lastId))>>, lastId)
      [] OTHER -> Outcome("", FALSE, view, <<>>, lastId)

\* cursor.execute(q, params): prepare the text, then bind and run.
Run(view, lastId, q, params) == RunAst(view, lastId, Parse(q), params)

\* ----------------------------------------------------------------- handlers

\* sep.join(parts), each part a sequence of tokens.
RECURSIVE Join(_, _)
Join(sep, parts) ==
    CASE parts = <<>> -> <<>>
      [] Len(parts) = 1 -> parts[1]
      [] OTHER -> parts[1] \o <<sep>> \o Join(sep, Tail(parts))

\* A data argument: a mapping (its items in the mapping's order, each a
\* column name k and a value v) or something that is no mapping.
Mapping(items) == [isMap |-> TRUE, items |-> items]
NotAMapping == [isMap |-> FALSE, items |-> <<>>]
Item(k, v) == [k |-> k, v |-> v]

Keys(data) == [j \in DOMAIN data.items |-> data.items[j].k]
DataValues(data) == [j \in DOMAIN data.items |-> data.items[j].v]

\* A faulty statement: the match is on the id column whatever the column.
GetItemQueryById(table, column) ==
    <<"SELECT", "*", "FROM", table, "WHERE", "id", "=", "?", ";">>

GetItemQuery(table, column) ==
    <<"SELECT", "*", "FROM", table, "WHERE", column, "=", "?", ";">>

\* A faulty statement: the SET clause without the WHERE clause.
UpdateQueryNoWhere(table, data, column) ==
    <<"UPDATE", table, "SET">>
    \o Join(",", [j \in DOMAIN data.items |-> <<data.items[j].k, "=", "?">>])
    \o <<";">>

UpdateQuery(table, data, column) ==
    <<"UPDATE", table, "SET">>
    \o Join(",", [j \in DOMAIN data.items |-> <<data.items[j].k, "=", "?">>])
    \o <<"WHERE", column, "=", "?", ";">>

\* A faulty binding order: the match value first, the data values after it.
UpdateParamsValueFirst(data, value) == <<value>> \o DataValues(data)

\* tuple(data.values()) + (value,)
UpdateParams(data, value) == DataValues(data) \o <<value>>

\* A faulty statement: the match is on the id column whatever the column.
DeleteQueryById(table, column) ==
    <<"DELETE", "FROM", table, "WHERE", "id", "=", "?", ";">>

DeleteQuery(table, column) ==
    <<"DELETE", "FROM", table, "WHERE", column, "=", "?", ";">>

CreateQuery(table, data) ==
    <<"INSERT", "INTO", table, "(">>
    \o Join(",", [j \in DOMAIN data.items |-> <<data.items[j].k>>])
    \o <<")", "VALUES", "(">>
    \o Join(",", [j \in DOMAIN data.items |-> <<"?">>])
    \o <<")", ";">>

LastIdQuery == <<"SELECT", "last_insert_rowid()", ";">>

GetAllQuery(table) == <<"SELECT", "*", "FROM", table, ";">>

\* A faulty statement: the listing without its ORDER BY clause.
TablesQueryUnordered ==
    <<"\n", "SELECT", "name", "FROM", "sqlite_master", "WHERE", "type", "=",
      "'table'", ";", "\n">>

TablesQuery ==
    <<"\n", "SELECT", "name", "FROM", "sqlite_master", "WHERE", "type", "=",
      "'table'", "ORDER", "BY", "name", ";", "\n">>

\* The values a handler or the executor returns.
\* A faulty read result: a message beside the results.
RowsWithMessage(results) ==
    [success |-> TRUE, results |-> results, message |-> "Query executed successfully"]

Rows(results) == [success |-> TRUE, results |-> results]
Ack(message) == [success |-> TRUE, message |-> message]
Failure(error) == [success |-> FALSE, error |-> error]
Created(id) ==
    [success |-> TRUE, message |-> "Item created successfully", id |-> id]
NoValue == [pending |-> TRUE]

\* ------------------------------------------------------------------- inputs

\* Caller 1 invokes the tools one after another (Spec); callers 1 and 2
\* invoke write tools at the same time (ConcSpec).
Callers == {1, 2}

TableInputs == {"users", "ghost"}

ColumnInputs == {"id", "name", "age", "nocol"}

ValueInputs == {IntV(1), TextV("1"), TextV("a"), Null}

\* The data arguments of create and update.
DataInputs ==
    { Mapping(<<>>), NotAMapping,
      Mapping(<<Item("age", TextV("1"))>>),
      Mapping(<<Item("name", Null)>>),
      Mapping(<<Item("id", IntV(2))>>),
      Mapping(<<Item("nocol", IntV(1))>>),
      Mapping(<<Item("name", IntV(1)), Item("age", Null)>>),
      Mapping(<<Item("age", TextV("1")), Item("name", TextV("a"))>>),
      Mapping(<<Item("name", TextV("a")), Item("age", IntV(1))>>),
      Mapping(<<Item("id", Null), Item("name", TextV("a"))>>),
      Mapping(<<Item("id", TextV("a")), Item("name", TextV("a"))>>) }

\* The arguments tried on a table: every combination on a table of the
\* database, one on a table the database does not hold.
Columns(t) == IF t = "ghost" THEN {"id"} ELSE ColumnInputs

Values(t) == IF t = "ghost" THEN {IntV(1)} ELSE ValueInputs

Datas(t) ==
    IF t = "ghost" THEN {Mapping(<<Item("name", TextV("a"))>>)} ELSE DataInputs

\* The statements and parameters given to the raw query tool.
Raw(query, params) == [query |-> query, params |-> params]

RawInputs ==
    { Raw(<<"SELECT", "*", "FROM", "products">>, <<>>),
      Raw(<<"SELECT", "*", "FROM", "users">>, <<>>),
      Raw(<<" ", "select", "*", "FROM", "users", "WHERE", "age", "=", "'1'", ";", "\n">>, <<>>),
      Raw(<<"SELECT", "*", "FROM", "users", "WHERE", "name", "=", "?">>, <<>>),
      Raw(<<"SELECT", "*", "FROM", "users", "WHERE", "name", "=", "?">>, <<IntV(1)>>),
      Raw(<<"SELECT", "*", "FROM", "users", "WHERE", "name", "=", "?">>, <<IntV(1), IntV(2)>>),
      Raw(<<"SELECT", "*", "FROM", "users">>, <<IntV(1)>>),
      Raw(<<"SELECT", "*", "FROM", "ghost">>, <<>>),
      Raw(<<"SELEC", "*", "FROM", "users">>, <<>>),
      Raw(<<>>, <<>>),
      Raw(<<"INSERT", "INTO", "users", "(", "name", ",", "age", ")",
            "VALUES", "(", "?", ",", "?", ")">>, <<TextV("a"), IntV(2)>>),
      Raw(<<"INSERT", "INTO", "users", "(", "name", ",", "age", ")",
            "VALUES", "(", "?", ",", "?", ")">>, <<TextV("a")>>),
      Raw(<<"INSERT", "INTO", "users", "(", "id", ",", "name", ")",
            "VALUES", "(", "1", ",", "'a'", ")">>, <<>>),
      Raw(<<"insert", "into", "products", "(", "name", ")", "values", "(", "'1'", ")">>, <<>>),
      Raw(<<"UPDATE", "users", "SET", "age", "=", "1", "WHERE", "name", "=", "?">>, <<TextV("1")>>),
      Raw(<<"UPDATE", "users", "SET", "age", "=", "NULL">>, <<>>),
      Raw(<<"DELETE", "FROM", "users", "WHERE", "id", "=", "?">>, <<TextV("1")>>),
      Raw(<<"DELETE", "FROM", "users", "WHERE", "id", "=", "?">>, <<>>),
      Raw(<<"DELETE", "FROM", "products">>, <<>>),
      Raw(<<"SELECT", "name", "FROM", "sqlite_master", "WHERE", "type", "=", "'table'">>,
          <<>>),
      Raw(<<"CREATE", "TABLE", "ghost">> \o NewTableCols, <<>>),
      Raw(<<"CREATE", "TABLE", "users">> \o NewTableCols, <<>>),
      Raw(<<"DROP", "TABLE", "products">>, <<>>),
      Raw(<<"/* c */", "SELECT", "*", "FROM", "users">>, <<>>),
      Raw(<<"WITH", "v", "AS", "(", "SELECT", "1", ")", "INSERT", "OR", "FAIL",
            "INTO", "products", "VALUES", "(", "2", ",", "'a'", ")", ",",
            "(", "1", ",", "'a'", ")">>, <<>>),
      Raw(<<"INSERT", "OR", "FAIL", "INTO", "products", "VALUES",
            "(", "2", ",", "'a'", ")", ",", "(", "1", ",", "'a'", ")">>, <<>>),
      Raw(<<"Select", "*", "FROM", "products", "\n">>, <<>>) }

\* --------------------------------------------------------------------- state

VARIABLES
    db,         \* the committed contents of the database file
    openConns,  \* the connections open on the file
    openTxns,   \* the transactions open on those connections
    nCalls,     \* the tool invocations made so far
    pc,         \* per caller: where its invocation stands
    call,       \* per caller: the tool invoked and its arguments
    query,      \* per caller: execute_query's statement
    params,     \* per caller: execute_query's parameters
    conn,       \* per caller: execute_query's connection
    work,       \* per caller: the database as its connection sees it
    cursor,     \* per caller: the rows its cursor holds
    ret,        \* per caller: the value execute_query returns
    first,      \* per caller: the result of create's INSERT
    resp,       \* per caller: the value the handler returned
    status,     \* per caller: "none", "running", "returned" or "raised"
    hist,       \* per caller: what its invocation has done so far
    last        \* per caller: the create that its previous invocation was

vars ==
    <<db, openConns, openTxns, nCalls, pc, call, query, params, conn, work,
      cursor, ret, first, resp, status, hist, last>>

Call(tool, table, value, column, data, raw) ==
    [tool |-> tool, table |-> table, value |-> value, column |-> column,
     data |-> data, raw |-> raw]

NoCall == Call("", "", Null, "", Mapping(<<>>), Raw(<<>>, <<>>))

\* conn: obj is whether the variable holds a connection (not None).
\* txn: the connection has begun a transaction; lock: it holds the write
\* lock of the file, with changes that are not committed.
NoConn == [obj |-> FALSE, open |-> FALSE, txn |-> FALSE, lock |-> FALSE, lastId |-> 0]

NoView == <<>>

\* What an invocation has done: the database when it began, the execute
\* calls it made, the connections its current execute call opened and
\* closed, the commits it made, the rowid its INSERT produced (0: none),
\* whether a fault of the environment struck it, and where the last execute
\* call left (read, write, or the step that failed).
NoHist(d) ==
    [dbBefore |-> d, executes |-> 0, opens |-> 0, closes |-> 0, commits |-> 0,
     inserted |-> 0, fault |-> FALSE, path |-> ""]

\* The previous invocation, when it was a create that returned success.
LastCreate(table, data) == [isCreate |-> TRUE, table |-> table, data |-> data]
NoLast == [isCreate |-> FALSE, table |-> "", data |-> Mapping(<<>>)]

\* The previous invocation, when it was a delete that returned success.
LastDelete(table, column, value) ==
    [isCreate |-> FALSE, isDelete |-> TRUE, table |-> table, column |-> column,
     value |-> value]

Init ==
    /\ db = FixtureDb
    /\ openConns = 0
    /\ openTxns = 0
    /\ nCalls = 0
    /\ pc = [p \in Callers |-> "idle"]
    /\ call = [p \in Callers |-> NoCall]
    /\ query = [p \in Callers |-> <<>>]
    /\ params = [p \in Callers |-> <<>>]
    /\ conn = [p \in Callers |-> NoConn]
    /\ work = [p \in Callers |-> NoView]
    /\ cursor = [p \in Callers |-> <<>>]
    /\ ret = [p \in Callers |-> NoValue]
    /\ first = [p \in Callers |-> NoValue]
    /\ resp = [p \in Callers |-> NoValue]
    /\ status = [p \in Callers |-> "none"]
    /\ hist = [p \in Callers |-> NoHist(FixtureDb)]
    /\ last = [p \in Callers |-> NoLast]

\* ------------------------------------------------------------ execute_query

\* Entering execute_query(q, ps): conn = None.
EnterExecute(p, q, ps) ==
    /\ query' = [query EXCEPT ![p] = q]
    /\ params' = [params EXCEPT ![p] = ps]
    /\ conn' = [conn EXCEPT ![p] = NoConn]
    /\ work' = [work EXCEPT ![p] = NoView]
    /\ cursor' = [cursor EXCEPT ![p] = <<>>]
    /\ ret' = [ret EXCEPT ![p] = NoValue]
    /\ pc' = [pc EXCEPT ![p] = "connect"]

\* conn = sqlite3.connect(DB_NAME); conn.cursor()
Connect(p) ==
    /\ pc[p] = "connect"
    /\ conn' = [conn EXCEPT ![p] = [obj |-> TRUE, open |-> TRUE, txn |-> FALSE,
                                       lock |-> FALSE, lastId |-> 0]]
    /\ openConns' = openConns + 1
    /\ hist' = [hist EXCEPT ![p].opens = @ + 1]
    /\ pc' = [pc EXCEPT ![p] = "execute"]
    /\ UNCHANGED <<last, db, openTxns, nCalls, call, query, params, work, cursor, ret,
                   first, resp, status>>

\* sqlite3.connect raises: the file cannot be opened. conn stays None.
ConnectFail(p) ==
    /\ pc[p] = "connect"
    /\ ret' = [ret EXCEPT ![p] = Failure("unable to open database file")]
    /\ hist' = [hist EXCEPT ![p].fault = TRUE, ![p].path = "connect"]
    /\ pc' = [pc EXCEPT ![p] = "finally"]
    /\ UNCHANGED <<last, db, openConns, openTxns, nCalls, call, query, params, conn,
                   work, cursor, first, resp, status>>

\* A faulty call: cursor.execute(query) whatever the parameters.
CursorExecuteNoParams(view, lastId, q, ps) == Run(view, lastId, q, <<>>)

\* if parameters: cursor.execute(query, parameters) else: cursor.execute(query)
CursorExecute(view, lastId, q, ps) ==
    IF ps # <<>> THEN Run(view, lastId, q, ps) ELSE Run(view, lastId, q, <<>>)

\* A faulty except clause: the message is returned under success = True.
CaughtAsSuccess(error) == [success |-> TRUE, error |-> error]

\* The except clause: the fault becomes the returned value.
Caught(error) == Failure(error)

\* The statement of caller p needs the write lock of the file while the
\* connection of another caller holds it.
Busy(p) ==
    /\ Writes(Parse(query[p]))
    /\ Steps(db, query[p], params[p])
    /\ \E o \in Callers \ {p} : conn[o].lock

\* cursor.execute. A statement that finds the file locked waits for the
\* lock (ExecuteBusy is the end of that wait by timeout).
Execute(p) ==
    /\ pc[p] = "execute"
    /\ ~Busy(p)
    /\ LET out == CursorExecute(db, conn[p].lastId, query[p], params[p]) IN
       /\ conn' = [conn EXCEPT ![p].txn = out.txn, ![p].lastId = out.lastId,
                               ![p].lock = out.txn /\ Steps(db, query[p], params[p])]
       /\ openTxns' = openTxns + (IF out.txn THEN 1 ELSE 0)
       /\ IF out.err # ""
          THEN /\ ret' = [ret EXCEPT ![p] = Caught(out.err)]
               /\ work' = [work EXCEPT ![p] = out.work]
               /\ hist' = [hist EXCEPT ![p].path = "execute"]
               /\ pc' = [pc EXCEPT ![p] = "finally"]
               /\ UNCHANGED cursor
          ELSE /\ work' = [work EXCEPT ![p] = out.work]
               /\ cursor' = [cursor EXCEPT ![p] = out.rows]
               /\ hist' = [hist EXCEPT ![p].inserted =
                              IF Parse(query[p]).kind = "insert" THEN out.lastId ELSE @]
               /\ pc' = [pc EXCEPT ![p] = "result"]
               /\ UNCHANGED ret
       /\ db' = IF ~out.txn THEN out.work ELSE db
    /\ UNCHANGED <<last, openConns, nCalls, call, query, params, first, resp, status>>

\* A faulty fetch: cursor.fetchone() in place of cursor.fetchall().
FetchOne(rows) == IF rows = <<>> THEN <<>> ELSE <<rows[1]>>

\* results = [dict(row) for row in cursor.fetchall()]
FetchAll(rows) == [j \in DOMAIN rows |-> rows[j]]

\* The select branch: fetch every row, return Rows, no commit.
Fetch(p) ==
    /\ pc[p] = "result"
    /\ StartsWithSelect(query[p])
    /\ ret' = [ret EXCEPT ![p] = Rows(FetchAll(cursor[p]))]
    /\ cursor' = [cursor EXCEPT ![p] = <<>>]
    /\ hist' = [hist EXCEPT ![p].path = "read"]
    /\ pc' = [pc EXCEPT ![p] = "finally"]
    /\ UNCHANGED <<last, db, openConns, openTxns, nCalls, call, query, params, conn,
                   work, first, resp, status>>

FetchFail(p) ==
    /\ pc[p] = "result"
    /\ StartsWithSelect(query[p])
    /\ ret' = [ret EXCEPT ![p] = Caught("disk I/O error")]
    /\ hist' = [hist EXCEPT ![p].fault = TRUE, ![p].path = "fetch"]
    /\ pc' = [pc EXCEPT ![p] = "finally"]
    /\ UNCHANGED <<last, db, openConns, openTxns, nCalls, call, query, params, conn,
                   work, cursor, first, resp, status>>

\* A faulty write branch: Ack is returned without conn.commit().
CommitOmitted(p) ==
    /\ pc[p] = "result"
    /\ ~StartsWithSelect(query[p])
    /\ ret' = [ret EXCEPT ![p] = Ack("Query executed successfully")]
    /\ hist' = [hist EXCEPT ![p].path = "write"]
    /\ pc' = [pc EXCEPT ![p] = "finally"]
    /\ UNCHANGED <<last, db, openConns, openTxns, nCalls, call, query, params, conn,
                   work, cursor, first, resp, status>>

\* The other branch: conn.commit() makes the connection's changes the
\* contents of the file, and Ack is returned.
Commit(p) ==
    /\ pc[p] = "result"
    /\ ~StartsWithSelect(query[p])
    /\ db' = IF conn[p].txn THEN work[p] ELSE db
    /\ openTxns' = openTxns - (IF conn[p].txn THEN 1 ELSE 0)
    /\ conn' = [conn EXCEPT ![p].txn = FALSE, ![p].lock = FALSE]
    /\ ret' = [ret EXCEPT ![p] = Ack("Query executed successfully")]
    /\ hist' = [hist EXCEPT ![p].commits = @ + 1, ![p].path = "write"]
    /\ pc' = [pc EXCEPT ![p] = "finally"]
    /\ UNCHANGED <<last, openConns, nCalls, call, query, params, work, cursor, first,
                   resp, status>>

\* conn.commit() raises: nothing reaches the file, the transaction stays
\* open. Without a transaction commit does nothing and cannot fail.
CommitFail(p) ==
    /\ pc[p] = "result"
    /\ ~StartsWithSelect(query[p])
    /\ conn[p].txn
    /\ ret' = [ret EXCEPT ![p] = Caught("disk I/O error")]
    /\ hist' = [hist EXCEPT ![p].fault = TRUE, ![p].path = "commit"]
    /\ pc' = [pc EXCEPT ![p] = "finally"]
    /\ UNCHANGED <<last, db, openConns, openTxns, nCalls, call, query, params, conn,
                   work, cursor, first, resp, status>>

\* A faulty release: conn.close() at the end of the try block, not in a
\* finally clause, so that a fault skips it.
CloseUnlessFault(p) ==
    /\ pc[p] = "finally"
    /\ IF conn[p].obj /\ ret[p].success
       THEN /\ conn' = [conn EXCEPT ![p].open = FALSE, ![p].txn = FALSE,
                                    ![p].lock = FALSE]
            /\ openConns' = openConns - 1
            /\ openTxns' = openTxns - (IF conn[p].txn THEN 1 ELSE 0)
            /\ hist' = [hist EXCEPT ![p].closes = @ + 1]
       ELSE UNCHANGED <<conn, openConns, openTxns, hist>>
    /\ work' = [work EXCEPT ![p] = NoView]
    /\ cursor' = [cursor EXCEPT ![p] = <<>>]
    /\ pc' = [pc EXCEPT ![p] = "handler"]
    /\ UNCHANGED <<last, db, nCalls, call, query, params, ret, first, resp, status>>

\* finally: if conn: conn.close(). Closing rolls an open transaction back.
Close(p) ==
    /\ pc[p] = "finally"
    /\ IF conn[p].obj
       THEN /\ conn' = [conn EXCEPT ![p].open = FALSE, ![p].txn = FALSE,
                                    ![p].lock = FALSE]
            /\ openConns' = openConns - 1
            /\ openTxns' = openTxns - (IF conn[p].txn THEN 1 ELSE 0)
            /\ hist' = [hist EXCEPT ![p].closes = @ + 1]
       ELSE UNCHANGED <<conn, openConns, openTxns, hist>>
    /\ work' = [work EXCEPT ![p] = NoView]
    /\ cursor' = [cursor EXCEPT ![p] = <<>>]
    /\ pc' = [pc EXCEPT ![p] = "handler"]
    /\ UNCHANGED <<last, db, nCalls, call, query, params, ret, first, resp, status>>

\* -------------------------------------------------------------------- tools

\* A tool is invoked and its handler reaches execute_query(q, ps).
Begin(p, c, q, ps) ==
    /\ pc[p] = "idle"
    /\ nCalls < MaxCalls
    /\ nCalls' = nCalls + 1
    /\ call' = [call EXCEPT ![p] = c]
    /\ status' = [status EXCEPT ![p] = "running"]
    /\ hist' = [hist EXCEPT ![p] = [NoHist(db) EXCEPT !.executes = 1]]
    /\ EnterExecute(p, q, ps)
    /\ UNCHANGED <<last, db, openConns, openTxns, first, resp>>

\* A tool is invoked and its handler raises before it reaches its try block.
Raise(p, c) ==
    /\ pc[p] = "idle"
    /\ nCalls < MaxCalls
    /\ nCalls' = nCalls + 1
    /\ call' = [call EXCEPT ![p] = c]
    /\ status' = [status EXCEPT ![p] = "raised"]
    /\ hist' = [hist EXCEPT ![p] = NoHist(db)]
    /\ pc' = [pc EXCEPT ![p] = "done"]
    /\ UNCHANGED <<last, db, openConns, openTxns, query, params, conn, work,
                   cursor, ret, first, resp>>

SqliteQuery(p) ==
    \E r \in RawInputs :
        Begin(p, Call("sqlite_query", "", Null, "", Mapping(<<>>), r), r.query, r.params)

GetItem(p) ==
    \E t \in TableInputs : \E v \in Values(t), c \in Columns(t) :
        Begin(p, Call("get_item", t, v, c, Mapping(<<>>), Raw(<<>>, <<>>)),
              GetItemQuery(t, c), <<v>>)

\* data.keys() and data.values() are evaluated before the try block.
UpdateItem(p) ==
    \E t \in TableInputs : \E v \in Values(t), d \in Datas(t), c \in Columns(t) :
        IF d.isMap
        THEN Begin(p, Call("update_item", t, v, c, d, Raw(<<>>, <<>>)),
                   UpdateQuery(t, d, c), UpdateParams(d, v))
        ELSE Raise(p, Call("update_item", t, v, c, d, Raw(<<>>, <<>>)))

DeleteItem(p) ==
    \E t \in TableInputs : \E v \in Values(t), c \in Columns(t) :
        Begin(p, Call("delete_item", t, v, c, Mapping(<<>>), Raw(<<>>, <<>>)),
              DeleteQuery(t, c), <<v>>)

\* A different handler: an empty mapping is rejected before a statement is
\* built, and the executor is not called.
CreateItemValidated(p) ==
    \E t \in TableInputs : \E d \in Datas(t) :
        CASE d.isMap /\ d.items # <<>> ->
                Begin(p, Call("create_item", t, Null, "", d, Raw(<<>>, <<>>)),
                      CreateQuery(t, d), DataValues(d))
          [] d.isMap /\ d.items = <<>> ->
                /\ pc[p] = "idle"
                /\ nCalls < MaxCalls
                /\ nCalls' = nCalls + 1
                /\ call' = [call EXCEPT ![p] =
                               Call("create_item", t, Null, "", d, Raw(<<>>, <<>>))]
                /\ resp' = [resp EXCEPT ![p] = Failure("no data")]
                /\ status' = [status EXCEPT ![p] = "returned"]
                /\ hist' = [hist EXCEPT ![p] = NoHist(db)]
                /\ pc' = [pc EXCEPT ![p] = "done"]
                /\ UNCHANGED <<last, db, openConns, openTxns, query, params, conn,
                               work, cursor, ret, first>>
          [] OTHER -> Raise(p, Call("create_item", t, Null, "", d, Raw(<<>>, <<>>)))

\* data.keys() is evaluated before the try block.
CreateItem(p) ==
    \E t \in TableInputs : \E d \in Datas(t) :
        IF d.isMap
        THEN Begin(p, Call("create_item", t, Null, "", d, Raw(<<>>, <<>>)),
                   CreateQuery(t, d), DataValues(d))
        ELSE Raise(p, Call("create_item", t, Null, "", d, Raw(<<>>, <<>>)))

GetAllItems(p) ==
    \E t \in TableInputs :
        Begin(p, Call("get_all_items", t, Null, "", Mapping(<<>>), Raw(<<>>, <<>>)),
              GetAllQuery(t), <<>>)

GetAllTables(p) ==
    Begin(p, Call("get_all_tables", "", Null, "", Mapping(<<>>), Raw(<<>>, <<>>)),
          TablesQuery, <<>>)

\* create_item after its INSERT succeeded: the second execute_query call.
CreateLastId(p) ==
    /\ pc[p] = "handler"
    /\ call[p].tool = "create_item"
    /\ hist[p].executes = 1
    /\ ret[p].success
    /\ first' = [first EXCEPT ![p] = ret[p]]
    /\ hist' = [hist EXCEPT ![p].executes = 2, ![p].opens = 0, ![p].closes = 0]
    /\ EnterExecute(p, LastIdQuery, <<>>)
    /\ UNCHANGED <<last, db, openConns, openTxns, nCalls, call, resp, status>>

\* The value a handler returns once its last execute_query call returned r
\* (f: the result of create's INSERT, n: the execute calls made).
HandlerResult(tool, r, f, n) ==
    CASE tool = "update_item" ->
            IF r.success THEN Ack("Item updated successfully") ELSE r
      [] tool = "delete_item" ->
            IF r.success THEN Ack("Item deleted successfully") ELSE r
      [] tool = "create_item" /\ n = 1 -> r
      [] tool = "create_item" /\ n = 2 ->
            IF r.success THEN Created(r.results[1]["last_insert_rowid()"]) ELSE f
      [] OTHER -> r

Return(p) ==
    /\ pc[p] = "handler"
    /\ ~(call[p].tool = "create_item" /\ hist[p].executes = 1 /\ ret[p].success)
    /\ resp' = [resp EXCEPT ![p] =
                   HandlerResult(call[p].tool, ret[p], first[p], hist[p].executes)]
    /\ status' = [status EXCEPT ![p] = "returned"]
    /\ pc' = [pc EXCEPT ![p] = "done"]
    /\ UNCHANGED <<last, db, openConns, openTxns, nCalls, call, query, params,
                   conn, work, cursor, ret, first, hist>>

\* The response (or the fault) reaches the caller and everything the
\* invocation built is discarded; the caller may invoke the next tool.
Deliver(p) ==
    /\ pc[p] = "done"
    /\ last' = [last EXCEPT ![p] =
                   IF /\ status[p] = "returned"
                      /\ call[p].tool = "create_item"
                      /\ resp[p].success
                   THEN LastCreate(call[p].table, call[p].data)
                   ELSE IF /\ status[p] = "returned"
                           /\ call[p].tool = "delete_item"
                           /\ resp[p].success
                        THEN LastDelete(call[p].table, call[p].column, call[p].value)
                        ELSE NoLast]
    /\ pc' = [pc EXCEPT ![p] = "idle"]
    /\ call' = [call EXCEPT ![p] = NoCall]
    /\ query' = [query EXCEPT ![p] = <<>>]
    /\ params' = [params EXCEPT ![p] = <<>>]
    /\ conn' = [conn EXCEPT ![p] = NoConn]
    /\ ret' = [ret EXCEPT ![p] = NoValue]
    /\ first' = [first EXCEPT ![p] = NoValue]
    /\ resp' = [resp EXCEPT ![p] = NoValue]
    /\ status' = [status EXCEPT ![p] = "none"]
    /\ hist' = [hist EXCEPT ![p] = NoHist(db)]
    /\ UNCHANGED <<db, openConns, openTxns, nCalls, work, cursor>>

Next ==
    \E p \in {1} :
        \/ SqliteQuery(p)
        \/ GetItem(p)
        \/ UpdateItem(p)
        \/ DeleteItem(p)
        \/ CreateItem(p)
        \/ GetAllItems(p)
        \/ GetAllTables(p)
        \/ Connect(p)
        \/ ConnectFail(p)
        \/ Execute(p)
        \/ Fetch(p)
        \/ FetchFail(p)
        \/ Commit(p)
        \/ CommitFail(p)
        \/ Close(p)
        \/ CreateLastId(p)
        \/ Return(p)
        \/ Deliver(p)

Spec == Init /\ [][Next]_vars

\* --------------------------------------------------------- concurrent calls

\* The statement and the parameters a write tool passes to execute_query.
WriteOf(c) ==
    CASE c.tool = "create_item" -> Raw(CreateQuery(c.table, c.data), DataValues(c.data))
      [] c.tool = "update_item" ->
            Raw(UpdateQuery(c.table, c.data, c.column), UpdateParams(c.data, c.value))
      [] c.tool = "delete_item" -> Raw(DeleteQuery(c.table, c.column), <<c.value>>)
      [] OTHER -> c.raw

\* The write calls that callers make at the same time.
ConcCalls ==
    { Call("create_item", "users", Null, "",
           Mapping(<<Item("name", TextV("a"))>>), Raw(<<>>, <<>>)),
      Call("update_item", "users", IntV(1), "id",
           Mapping(<<Item("age", IntV(1)), Item("name", TextV("a"))>>), Raw(<<>>, <<>>)),
      Call("update_item", "users", TextV("a"), "name",
           Mapping(<<Item("age", Null)>>), Raw(<<>>, <<>>)),
      Call("delete_item", "users", IntV(1), "age", Mapping(<<>>), Raw(<<>>, <<>>)),
      Call("sqlite_query", "", Null, "", Mapping(<<>>),
           Raw(<<"DROP", "TABLE", "products">>, <<>>)),
      Call("sqlite_query", "", Null, "", Mapping(<<>>),
           Raw(<<"INSERT", "OR", "FAIL", "INTO", "products", "VALUES",
                 "(", "2", ",", "'a'", ")", ",", "(", "1", ",", "'a'", ")">>, <<>>)),
      Call("sqlite_query", "", Null, "", Mapping(<<>>),
           Raw(<<"WITH", "v", "AS", "(", "SELECT", "1", ")", "INSERT", "OR", "FAIL",
                 "INTO", "products", "VALUES", "(", "2", ",", "'a'", ")", ",",
                 "(", "1", ",", "'a'", ")">>, <<>>)) }

\* A caller invokes a write tool.
Invoke(p) ==
    \E c \in ConcCalls : Begin(p, c, WriteOf(c).query, WriteOf(c).params)

\* cursor.execute when the wait for the write lock ends by timeout: the
\* engine raises "database is locked". The transaction the connection began
\* before the statement stays open and holds no lock.
ExecuteBusy(p) ==
    /\ pc[p] = "execute"
    /\ Busy(p)
    /\ conn' = [conn EXCEPT ![p].txn = IsDml(Parse(query[p]))]
    /\ openTxns' = openTxns + (IF IsDml(Parse(query[p])) THEN 1 ELSE 0)
    /\ ret' = [ret EXCEPT ![p] = Caught("database is locked")]
    /\ hist' = [hist EXCEPT ![p].path = "execute"]
    /\ pc' = [pc EXCEPT ![p] = "finally"]
    /\ UNCHANGED <<last, db, openConns, nCalls, call, query, params, work, cursor,
                   first, resp, status>>

ConcNext ==
    \E p \in Callers :
        \/ Invoke(p)
        \/ Connect(p)
        \/ ConnectFail(p)
        \/ Execute(p)
        \/ ExecuteBusy(p)
        \/ Fetch(p)
        \/ FetchFail(p)
        \/ Commit(p)
        \/ CommitFail(p)
        \/ Close(p)
        \/ CreateLastId(p)
        \/ Return(p)

ConcSpec == Init /\ [][ConcNext]_vars

\* --------------------------------------------------------------- properties

\* execute_query is running for caller p.
InExecute(p) == pc[p] \in {"connect", "execute", "result", "finally"}

\* execute_query has returned ret[p] to the handler of caller p.
ExecuteReturned(p) == pc[p] = "handler"

\* The handler of caller p has returned resp[p].
HandlerReturned(p) == pc[p] = "done" /\ status[p] = "returned"

\* The shapes of the returned values.
IsFailure(r) == DOMAIN r = {"success", "error"} /\ r.success = FALSE

IsAck(r) == DOMAIN r = {"success", "message"} /\ r.success = TRUE

IsRows(r) == DOMAIN r = {"success", "results"} /\ r.success = TRUE

\* The number of ? placeholders in the text of a statement.
QMarks(q) == Cardinality({j \in DOMAIN q : q[j] = "?"})

\* The value a mapping gives for key k.
Given(data, k) ==
    data.items[CHOOSE j \in DOMAIN data.items : data.items[j].k = k].v

KeySet(data) == {data.items[j].k : j \in DOMAIN data.items}

\* The rows of td whose column c the engine finds equal to v.
RowsWhere(td, c, v) ==
    {j \in DOMAIN td.rows : SqlEq(ColDef(td, c).type, td.rows[j][c], v)}

\* C1: a create call whose INSERT succeeds returns success = true with an id
\* equal to the rowid of the row this call inserted (no fault of the
\* environment assumed).
CreateReturnsInsertedId ==
    \A p \in Callers :
        (HandlerReturned(p) /\ call[p].tool = "create_item" /\ hist[p].executes = 2
           /\ ~hist[p].fault)
        => /\ resp[p].success
           /\ "id" \in DOMAIN resp[p]
           /\ resp[p].id = IntV(hist[p].inserted)

\* C2: no handler ever raises; a handler whose own logic fails before the
\* executor is reached returns success = false with an error message.
HandlersNeverRaise ==
    \A p \in Callers :
        /\ status[p] # "raised"
        /\ (pc[p] = "done" /\ hist[p].executes = 0) => IsFailure(resp[p])

\* C3: every call of execute_query that read, wrote, or failed in execute,
\* fetch or commit opened exactly one connection and closed it before it
\* returned; while no call of execute_query is in progress no connection and
\* no transaction is open.
OneConnectionPerExecute ==
    /\ (\A p \in Callers : ~InExecute(p)) => (openConns = 0 /\ openTxns = 0)
    /\ \A p \in Callers :
          (ExecuteReturned(p)
             /\ hist[p].path \in {"read", "write", "execute", "fetch", "commit"})
          => /\ hist[p].opens = 1
             /\ hist[p].closes = 1
             /\ ~conn[p].open
             /\ ~conn[p].txn

\* A commit failed with the transaction open, and the call has returned.
ClosedAfterCommitFault ==
    \E p \in Callers :
        /\ ExecuteReturned(p)
        /\ hist[p].path = "commit"
        /\ Parse(query[p]).kind = "insert"
        /\ hist[p].closes = 1
        /\ openConns = 0

\* C4: every fault during execute_query (no connection, syntax error,
\* unknown table or column, constraint violation, fetch or commit failure)
\* is returned as {success: false, error: message}; a handler that reached
\* execute_query never raises.
FaultsReturnedAsFailure ==
    \A p \in Callers :
        /\ (pc[p] \in {"finally", "handler"}
              /\ hist[p].path \in {"connect", "execute", "fetch", "commit"})
           => IsFailure(ret[p])
        /\ hist[p].executes > 0 => status[p] # "raised"

\* A constraint violation has been returned as a Failure.
ConstraintFaultReturned ==
    \E p \in Callers :
        /\ ExecuteReturned(p)
        /\ hist[p].path = "execute"
        /\ ret[p] = Failure("NOT NULL constraint failed")

\* C5: a statement whose number of ? placeholders differs from the number of
\* parameters makes execute_query return a Failure.
ArityMismatchFails ==
    \A p \in Callers :
        (ExecuteReturned(p) /\ QMarks(query[p]) # Len(params[p]))
        => IsFailure(ret[p])

\* One placeholder met two parameters and the binding fault was returned.
TwoParametersForOnePlaceholder ==
    \E p \in Callers :
        /\ ExecuteReturned(p)
        /\ QMarks(query[p]) = 1
        /\ Len(params[p]) = 2
        /\ ret[p] = Failure("Incorrect number of bindings supplied")

\* C6 as the specification states it: every INSERT, UPDATE or DELETE
\* statement is acknowledged (no fault of the environment assumed).
EveryWriteAcknowledged ==
    \A p \in Callers :
        (ExecuteReturned(p) /\ ~StartsWithSelect(query[p]) /\ ~hist[p].fault
           /\ IsDml(Parse(query[p])))
        => IsAck(ret[p])

\* C6: a statement that does not start with select and that the engine runs
\* without a fault is committed and acknowledged: once execute_query has
\* returned, the file holds the statement's effect, and a later SELECT * on a
\* table returns the rows the file holds.
CleanWriteCommitted ==
    \A p \in Callers :
        /\ (ExecuteReturned(p) /\ ~StartsWithSelect(query[p]) /\ ~hist[p].fault
              /\ Run(hist[p].dbBefore, 0, query[p], params[p]).err = "")
           => /\ IsAck(ret[p])
              /\ db = Run(hist[p].dbBefore, 0, query[p], params[p]).work
        /\ (ExecuteReturned(p) /\ hist[p].path = "read"
              /\ Parse(query[p]).kind = "select" /\ Parse(query[p]).wcol = "")
           => ret[p].results = db[Parse(query[p]).table].rows

\* A raw statement changed the file and was acknowledged.
RawWriteCommitted ==
    \E p \in Callers :
        /\ ExecuteReturned(p)
        /\ call[p].tool = "sqlite_query"
        /\ IsAck(ret[p])
        /\ db # hist[p].dbBefore

\* The number of rows the engine matches for a valid SELECT without
\* placeholders in the database d.
MatchCount(d, ast) ==
    CASE ast.kind = "select" /\ ast.wcol = "" -> Len(d[ast.table].rows)
      [] ast.kind = "select" ->
            Cardinality(RowsWhere(d[ast.table], ast.wcol, Literals[ast.wop]))
      [] ast.kind = "tables" -> Cardinality(DOMAIN d)
      [] OTHER -> 1

\* C7: a valid SELECT with no placeholder and no parameter returns Rows with
\* as many rows as the engine matches in the current contents of the file.
SelectReturnsEveryMatch ==
    \A p \in Callers :
        (ExecuteReturned(p) /\ StartsWithSelect(query[p]) /\ ~hist[p].fault
           /\ QMarks(query[p]) = 0 /\ params[p] = <<>>
           /\ PrepareError(db, Parse(query[p])) = "")
        => /\ IsRows(ret[p])
           /\ Len(ret[p].results) = MatchCount(db, Parse(query[p]))

\* A SELECT without placeholders returned the two rows of a table.
SelectReturnedTwoRows ==
    \E p \in Callers :
        /\ ExecuteReturned(p)
        /\ call[p].tool = "sqlite_query"
        /\ params[p] = <<>>
        /\ IsRows(ret[p])
        /\ Len(ret[p].results) = 2

\* The invocation of caller p is a get-by-column that follows a successful
\* create, on the same table, on a column the create gave, with the value
\* the create gave it, and exactly one row of the table holds that value
\* (as the column stores it).
GetFollowsCreate(p) ==
    /\ HandlerReturned(p)
    /\ call[p].tool = "get_item"
    /\ ~hist[p].fault
    /\ last[p].isCreate
    /\ call[p].table = last[p].table
    /\ call[p].column \in KeySet(last[p].data)
    /\ call[p].value = Given(last[p].data, call[p].column)
    /\ LET td == db[call[p].table]
           c == call[p].column
       IN  Cardinality({j \in DOMAIN td.rows :
                           td.rows[j][c] = StoredValue(td, c, call[p].value)}) = 1

\* C8 as the specification states it: the get returns exactly one row and
\* every field the create gave has the given value in it.
GetReturnsGivenFields ==
    \A p \in Callers :
        GetFollowsCreate(p)
        => /\ resp[p].success
           /\ Len(resp[p].results) = 1
           /\ \A k \in KeySet(last[p].data) :
                 resp[p].results[1][k] = Given(last[p].data, k)

\* C8: when the value is not NULL, the get returns exactly one row, and
\* every field the create gave, other than a NULL given for the INTEGER
\* PRIMARY KEY column, holds the given value converted by its column's type
\* affinity.
GetReturnsStoredFields ==
    \A p \in Callers :
        (GetFollowsCreate(p) /\ call[p].value # Null)
        => /\ resp[p].success
           /\ Len(resp[p].results) = 1
           /\ LET td == db[call[p].table] IN
              \A k \in KeySet(last[p].data) :
                 (k = PkName(td) /\ Given(last[p].data, k) = Null)
                 \/ resp[p].results[1][k] = StoredValue(td, k, Given(last[p].data, k))

\* A get after a create returned the one row, with a field the column's
\* affinity converted.
GetReturnedConvertedField ==
    \E p \in Callers :
        /\ GetFollowsCreate(p)
        /\ call[p].value # Null
        /\ Len(resp[p].results) = 1
        /\ \E k \in KeySet(last[p].data) :
              resp[p].results[1][k] # Given(last[p].data, k)

\* The rows an update leaves: new[k] in every column k that new assigns, in
\* every row where c = v, everything else as it was.
Updated(td, c, v, new) ==
    {[k \in ColNames(td) |->
         IF j \in RowsWhere(td, c, v) /\ k \in DOMAIN new
         THEN new[k]
         ELSE td.rows[j][k]] : j \in DOMAIN td.rows}

\* The database after the update of caller p has exactly the rows Updated
\* gives in the table, the same columns, and the other tables as they were.
UpdateFrame(p, new) ==
    LET before == hist[p].dbBefore
        t == call[p].table
    IN  /\ DOMAIN db = DOMAIN before
        /\ \A u \in DOMAIN db : u # t => db[u] = before[u]
        /\ db[t].cols = before[t].cols
        /\ RowSet(db[t]) =
              Updated(before[t], call[p].column, call[p].value, new)
        /\ Len(db[t].rows) = Len(before[t].rows)

\* C9 as the specification states it: a successful update sets the columns
\* of D to D's values in every row where c = v and changes nothing else.
UpdateSetsGivenValues ==
    \A p \in Callers :
        (HandlerReturned(p) /\ call[p].tool = "update_item" /\ resp[p].success)
        => UpdateFrame(p, [k \in KeySet(call[p].data) |-> Given(call[p].data, k)])

\* C9: a successful update sets the columns of D, in every row where c = v,
\* to D's values converted by each column's type affinity, and changes
\* nothing else.
UpdateSetsStoredValues ==
    \A p \in Callers :
        (HandlerReturned(p) /\ call[p].tool = "update_item" /\ resp[p].success)
        => UpdateFrame(p, [k \in KeySet(call[p].data) |->
               StoredValue(hist[p].dbBefore[call[p].table], k, Given(call[p].data, k))])

\* A successful update changed a row.
UpdateChangedARow ==
    \E p \in Callers :
        /\ HandlerReturned(p)
        /\ call[p].tool = "update_item"
        /\ resp[p].success
        /\ RowsWhere(hist[p].dbBefore[call[p].table], call[p].column, call[p].value) # {}
        /\ db # hist[p].dbBefore

\* The update of caller p names an existing table, existing columns and a
\* non-empty mapping, and its match value matches no row.
UpdateMatchesNothing(p) ==
    /\ HandlerReturned(p)
    /\ call[p].tool = "update_item"
    /\ ~hist[p].fault
    /\ call[p].table \in DOMAIN hist[p].dbBefore
    /\ LET td == hist[p].dbBefore[call[p].table] IN
       /\ call[p].column \in ColNames(td)
       /\ call[p].data.items # <<>>
       /\ KeySet(call[p].data) \subseteq ColNames(td)
       /\ RowsWhere(td, call[p].column, call[p].value) = {}

\* C10: an update whose match value matches no row of an existing table
\* (existing columns, non-empty mapping) leaves the database as it was and
\* returns success = true.
UpdateWithoutMatchSucceeds ==
    \A p \in Callers :
        UpdateMatchesNothing(p) => (resp[p].success /\ db = hist[p].dbBefore)

\* An update that matched no row returned success although its data would
\* violate a constraint.
UpdateWithoutMatchReturned ==
    \E p \in Callers :
        /\ UpdateMatchesNothing(p)
        /\ "name" \in KeySet(call[p].data)
        /\ Given(call[p].data, "name") = Null
        /\ IsAck(resp[p])

\* The invocation of caller p is a get-by-column that follows a successful
\* delete, with the same table, column and value.
GetFollowsDelete(p) ==
    /\ HandlerReturned(p)
    /\ call[p].tool = "get_item"
    /\ ~hist[p].fault
    /\ "isDelete" \in DOMAIN last[p]
    /\ call[p].table = last[p].table
    /\ call[p].column = last[p].column
    /\ call[p].value = last[p].value

\* C11: a successful delete removes exactly the rows of T where c = v (as
\* the engine compares them) and changes nothing else; a get-by-column for
\* the same table, column and value that follows it returns success with no
\* row.
DeleteRemovesMatchedRows ==
    \A p \in Callers :
        /\ (HandlerReturned(p) /\ call[p].tool = "delete_item" /\ resp[p].success)
           => LET before == hist[p].dbBefore
                  t == call[p].table
                  gone == RowsWhere(before[t], call[p].column, call[p].value)
              IN  /\ DOMAIN db = DOMAIN before
                  /\ \A u \in DOMAIN db : u # t => db[u] = before[u]
                  /\ db[t].cols = before[t].cols
                  /\ db[t].rows =
                        SelectSeq(before[t].rows, LAMBDA r :
                            \A j \in gone : before[t].rows[j] # r)
        /\ GetFollowsDelete(p) => (IsRows(resp[p]) /\ resp[p].results = <<>>)

\* A delete removed a row and the get that followed it has returned.
GetAfterDeleteReturned ==
    \E p \in Callers :
        /\ GetFollowsDelete(p)
        /\ Len(db[call[p].table].rows) < Len(FixtureDb[call[p].table].rows)
        /\ IsRows(resp[p])

\* The place of a table name in the ascending lexical order of the names.
Rank(n) == CHOOSE k \in DOMAIN LexOrder : LexOrder[k] = n

\* C12: list-tables returns success with one row per table the file holds,
\* the names in ascending lexical order; the tables the file holds are those
\* that earlier committed statements created and did not drop.
TablesListedInOrder ==
    \A p \in Callers :
        (HandlerReturned(p) /\ call[p].tool = "get_all_tables" /\ ~hist[p].fault)
        => /\ IsRows(resp[p])
           /\ Len(resp[p].results) = Cardinality(DOMAIN db)
           /\ {resp[p].results[k]["name"] : k \in DOMAIN resp[p].results}
                 = {TextV(n) : n \in DOMAIN db}
           /\ \A j, k \in DOMAIN resp[p].results :
                 j < k => Rank(resp[p].results[j]["name"].s)
                             < Rank(resp[p].results[k]["name"].s)

\* The listing holds a table that an earlier statement created.
CreatedTableListed ==
    \E p \in Callers :
        /\ HandlerReturned(p)
        /\ call[p].tool = "get_all_tables"
        /\ IsRows(resp[p])
        /\ Len(resp[p].results) = 3
        /\ resp[p].results[1]["name"] = TextV("ghost")

\* C13: every value execute_query returns is exactly one variant: success
\* with results only, success with a message only, or no success with an
\* error only.
ExactlyOneVariant ==
    \A p \in Callers :
        pc[p] \in {"finally", "handler"}
        => /\ DOMAIN ret[p] \subseteq {"success", "results", "message", "error"}
           /\ "success" \in DOMAIN ret[p]
           /\ Cardinality(DOMAIN ret[p] \cap {"results", "message", "error"}) = 1
           /\ ret[p].success = ("error" \notin DOMAIN ret[p])

\* A read whose fetch failed returned an error and no results.
FetchFaultReturnedErrorOnly ==
    \E p \in Callers :
        /\ ExecuteReturned(p)
        /\ hist[p].path = "fetch"
        /\ DOMAIN ret[p] = {"success", "error"}

\* C14: create and update with an empty data mapping send their statement
\* to execute_query, where it fails in the engine: the handler returns
\* success = false with the error and the database is as it was.
EmptyMappingFailsInEngine ==
    \A p \in Callers :
        (HandlerReturned(p) /\ call[p].tool \in {"create_item", "update_item"}
           /\ call[p].data = Mapping(<<>>))
        => /\ hist[p].executes = 1
           /\ Parse(query[p]).kind = "error"
           /\ IsFailure(resp[p])
           /\ db = hist[p].dbBefore
           /\ ~hist[p].fault => (hist[p].path = "execute" /\ hist[p].opens = 1)

\* An update with an empty mapping has returned the engine's syntax error.
EmptyUpdateReturned ==
    \E p \in Callers :
        /\ HandlerReturned(p)
        /\ call[p].tool = "update_item"
        /\ call[p].data = Mapping(<<>>)
        /\ resp[p] = Failure("syntax error")

\* The text of the statement, without its leading white space, starts with
\* select in some mix of upper and lower case.
HasSelectPrefix(q) ==
    \E j \in DOMAIN q :
        /\ Lower(q[j]) = "select"
        /\ \A k \in 1..(j - 1) : q[k] \in WhiteSpace

\* C16: a statement that executed successfully yields Rows, fetched without
\* a commit, exactly when its text starts with select after trimming white
\* space and lower-casing, and yields Ack after a commit otherwise, also when
\* the statement returns rows.
SelectPrefixDecides ==
    \A p \in Callers :
        (ExecuteReturned(p) /\ ret[p].success)
        => IF HasSelectPrefix(query[p])
           THEN IsRows(ret[p]) /\ hist[p].path = "read"
           ELSE IsAck(ret[p]) /\ hist[p].path = "write"

\* A SELECT behind a comment ran and was acknowledged without its rows.
CommentedSelectAcknowledged ==
    \E p \in Callers :
        /\ ExecuteReturned(p)
        /\ Parse(query[p]).kind = "select"
        /\ ~HasSelectPrefix(query[p])
        /\ IsAck(ret[p])

\* C17: when execute_query returns Failure for a statement of the write
\* branch, and when create_item, update_item or delete_item returns
\* success = false, the call has committed nothing and the database is what
\* it was before the call.
FailureLeavesNoChange ==
    \A p \in Callers :
        /\ (/\ ExecuteReturned(p)
            /\ IsFailure(ret[p])
            /\ ~StartsWithSelect(query[p]))
           => (hist[p].commits = 0 /\ db = hist[p].dbBefore)
        /\ (/\ HandlerReturned(p)
            /\ call[p].tool \in {"create_item", "update_item", "delete_item"}
            /\ ~resp[p].success)
           => (hist[p].commits = 0 /\ db = hist[p].dbBefore)

\* The databases that applying the write calls of the callers in S to d,
\* one after another in some order, each succeeding, can produce.
RECURSIVE Serial(_, _)
Serial(d, S) ==
    IF S = {}
    THEN {d}
    ELSE UNION { LET w == WriteOf(call[p])
                     out == CursorExecute(d, 0, w.query, w.params)
                 IN  IF out.err = "" THEN Serial(out.work, S \ {p}) ELSE {}
                 : p \in S }

\* At most one connection holds changes that are not committed.
WritersExclusive == Cardinality({p \in Callers : conn[p].lock}) <= 1

\* C15: whenever callers invoke write tools at the same time, at most one
\* connection holds an uncommitted write, and once every call has returned
\* the database is what the calls that returned success produce when they
\* are applied in some serial order; failed calls contribute nothing.
WritersSerialized ==
    /\ WritersExclusive
    /\ (\A p \in Callers : HandlerReturned(p))
       => db \in Serial(FixtureDb, {p \in Callers : resp[p].success})

====
